---- MODULE Spec2Model ----
(***************************************************************************)
(* State-machine model of the cel-lua C boundary (src/src/ffi): the string *)
(* buffers handed to the caller (store_string_in_pool /                    *)
(* release_string_from_pool), the Context and Program handles, the value   *)
(* conversions in both directions, the error-buffer convention and the     *)
(* lexical variable extractor.                                             *)
(*                                                                         *)
(* Text is a sequence of characters, one-character strings; a character    *)
(* outside ASCII is written "U+XXXX".  Memory is a sequence of bytes; an   *)
(* ASCII byte is written as its character, the zero byte is "NUL", other   *)
(* bytes are written "0xHH".                                               *)
(***************************************************************************)
EXTENDS Integers, Sequences, FiniteSets, TLC

VARIABLES
    pool,         \* heap blocks leaked by store_string_in_pool: address -> bytes
    doubleFreed,  \* addresses the allocator holds free once more than it should
    aborted,      \* the process was terminated (panic in extern "C", allocator abort)
    context,      \* the Context behind the caller's handle, or NoContext
    program,      \* the Program behind the caller's handle, or NoProgram
    result,       \* the result slot passed to the most recent call, as the call left it
    errbuf,       \* the memory at the error buffer pointer passed to that call
    errbuf_len,   \* the capacity in/out parameter of that call
    call,         \* the most recent boundary call and what it returned
    history,      \* what the caller did so far with the handles it holds
    variables_len,\* what program_validate stored through variables_len, if it did
    threads,      \* the threads that store and release strings side by side
    input,        \* the text handed to extract_variables
    extracted,    \* the names extract_variables returned for it, if it ran
    cleaned       \* what remove_strings_and_literals made of it on the way

vars == <<pool, doubleFreed, aborted, context, program, result, errbuf,
          errbuf_len, call, history, variables_len, threads, input,
          extracted, cleaned>>

----------------------------------------------------------------------------
(* Bounds of the model *)

\* number of heap addresses the allocator can hand out
MaxAddr == 2
\* bits of i64/u64 in the model (64 in the program)
IntBits == 3
\* bits of usize in the model
UsizeBits == 8
\* capacity of the error buffer the caller passes in the main specification
ErrCap == 8

Addrs == 1..MaxAddr
I64Min == -(2 ^ (IntBits - 1))
I64Max == (2 ^ (IntBits - 1)) - 1
U64Max == (2 ^ IntBits) - 1
UsizeMax == (2 ^ UsizeBits) - 1

NUL == "NUL"

\* Option<T>
None == [some |-> FALSE]
Some(x) == [some |-> TRUE, v |-> x]

Min(a, b) == IF a <= b THEN a ELSE b

----------------------------------------------------------------------------
(* Characters, bytes and UTF-8 *)

AsciiLetters ==
    { "a", "b", "c", "d", "e", "f", "g", "h", "i", "j", "k", "l", "m",
      "n", "o", "p", "q", "r", "s", "t", "u", "v", "w", "x", "y", "z",
      "A", "B", "C", "D", "E", "F", "G", "H", "I", "J", "K", "L", "M",
      "N", "O", "P", "Q", "R", "S", "T", "U", "V", "W", "X", "Y", "Z" }

AsciiDigits == { "0", "1", "2", "3", "4", "5", "6", "7", "8", "9" }

\* a test that takes digits for letters
is_alphabetic_or_digit(ch) == ch \in AsciiLetters \cup AsciiDigits

\* char::is_alphabetic: the ASCII letters and, outside ASCII, e.g. U+00E9
is_alphabetic(ch) == ch \in AsciiLetters \cup { "U+00E9" }

\* char::is_numeric: the ASCII digits and, outside ASCII, e.g. U+00B2
is_numeric(ch) == ch \in AsciiDigits \cup { "U+00B2" }

is_alphanumeric(ch) == is_alphabetic(ch) \/ is_numeric(ch)

\* char::is_whitespace
is_whitespace(ch) == ch \in { " ", "\t", "\n", "\r", "U+00A0" }

\* str::as_bytes of one character
Utf8Char(ch) ==
    CASE ch = "U+00E9" -> << "0xC3", "0xA9" >>
      [] ch = "U+00B2" -> << "0xC2", "0xB2" >>
      [] ch = "U+00A0" -> << "0xC2", "0xA0" >>
      [] OTHER -> << ch >>

MultiByte == { "U+00E9", "U+00B2", "U+00A0" }

\* str::as_bytes: text of one-byte characters is its own bytes
RECURSIVE as_bytes(_)
as_bytes(s) ==
    IF \A i \in 1..Len(s) : s[i] \notin MultiByte THEN s
    ELSE Utf8Char(Head(s)) \o as_bytes(Tail(s))

\* the two-byte sequences of the model, and the character each decodes to
Utf8Pair(b1, b2) ==
    CASE b1 = "0xC3" /\ b2 = "0xA9" -> "U+00E9"
      [] b1 = "0xC2" /\ b2 = "0xB2" -> "U+00B2"
      [] b1 = "0xC2" /\ b2 = "0xA0" -> "U+00A0"
      [] OTHER -> "invalid"

LeadBytes == { "0xC2", "0xC3" }
NonAsciiBytes == { "0xC2", "0xC3", "0xA9", "0xB2", "0xA0", "0xFF" }

\* std::str::from_utf8 from byte offset i on: Ok(text) or Err(Utf8Error)
RECURSIVE from_utf8_at(_, _)
from_utf8_at(bytes, i) ==
    IF i > Len(bytes) THEN [ok |-> TRUE, s |-> << >>]
    ELSE IF bytes[i] \notin NonAsciiBytes THEN
        LET rest == from_utf8_at(bytes, i + 1)
        IN  IF rest.ok THEN [ok |-> TRUE, s |-> << bytes[i] >> \o rest.s] ELSE rest
    ELSE IF bytes[i] \in LeadBytes /\ i = Len(bytes) THEN
        [ok |-> FALSE, valid_up_to |-> i - 1, incomplete |-> TRUE]
    ELSE IF bytes[i] \in LeadBytes /\ Utf8Pair(bytes[i], bytes[i + 1]) # "invalid" THEN
        LET rest == from_utf8_at(bytes, i + 2)
        IN  IF rest.ok
            THEN [ok |-> TRUE, s |-> << Utf8Pair(bytes[i], bytes[i + 1]) >> \o rest.s]
            ELSE rest
    ELSE [ok |-> FALSE, valid_up_to |-> i - 1, incomplete |-> FALSE]

from_utf8(bytes) == from_utf8_at(bytes, 1)

\* CStr::from_ptr(ptr).to_str(): the bytes before the first zero byte, decoded
CStr_to_str(cstr) == from_utf8(cstr)

Digit(n) == << "0", "1", "2", "3", "4", "5", "6", "7", "8", "9" >>[n + 1]

\* "Invalid variable name: "
MsgInvalidVariableName == <<"I", "n", "v", "a", "l", "i", "d", " ", "v", "a",
    "r", "i", "a", "b", "l", "e", " ", "n", "a", "m", "e", ":", " ">>

\* "Invalid float value: "
MsgInvalidFloatValue == <<"I", "n", "v", "a", "l", "i", "d", " ", "f", "l",
    "o", "a", "t", " ", "v", "a", "l", "u", "e", ":", " ">>

\* "Invalid UTF-8 string: "
MsgInvalidUtf8String == <<"I", "n", "v", "a", "l", "i", "d", " ", "U", "T",
    "F", "-", "8", " ", "s", "t", "r", "i", "n", "g", ":", " ">>

\* "Unsupported value type"
MsgUnsupportedValueType == <<"U", "n", "s", "u", "p", "p", "o", "r", "t",
    "e", "d", " ", "v", "a", "l", "u", "e", " ", "t", "y", "p", "e">>

\* "Invalid expression string: "
MsgInvalidExpressionString == <<"I", "n", "v", "a", "l", "i", "d", " ", "e",
    "x", "p", "r", "e", "s", "s", "i", "o", "n", " ", "s", "t", "r", "i",
    "n", "g", ":", " ">>

\* "Compilation error: "
MsgCompilationError == <<"C", "o", "m", "p", "i", "l", "a", "t", "i", "o",
    "n", " ", "e", "r", "r", "o", "r", ":", " ">>

\* "No expression compiled"
MsgNoExpressionCompiled == <<"N", "o", " ", "e", "x", "p", "r", "e", "s",
    "s", "i", "o", "n", " ", "c", "o", "m", "p", "i", "l", "e", "d">>

\* "Error converting variable '"
MsgErrorConvertingVariable == <<"E", "r", "r", "o", "r", " ", "c", "o", "n",
    "v", "e", "r", "t", "i", "n", "g", " ", "v", "a", "r", "i", "a", "b",
    "l", "e", " ", "'">>

\* "': "
MsgQuoteColon == <<"'", ":", " ">>

\* "Execution error: "
MsgExecutionError == <<"E", "x", "e", "c", "u", "t", "i", "o", "n", " ", "e",
    "r", "r", "o", "r", ":", " ">>

\* "Result pointer is null"
MsgResultPointerIsNull == <<"R", "e", "s", "u", "l", "t", " ", "p", "o", "i",
    "n", "t", "e", "r", " ", "i", "s", " ", "n", "u", "l", "l">>

\* "List return values not yet supported"
MsgListNotSupported == <<"L", "i", "s", "t", " ", "r", "e", "t", "u", "r",
    "n", " ", "v", "a", "l", "u", "e", "s", " ", "n", "o", "t", " ", "y",
    "e", "t", " ", "s", "u", "p", "p", "o", "r", "t", "e", "d">>

\* "Map return values not yet supported"
MsgMapNotSupported == <<"M", "a", "p", " ", "r", "e", "t", "u", "r", "n",
    " ", "v", "a", "l", "u", "e", "s", " ", "n", "o", "t", " ", "y", "e",
    "t", " ", "s", "u", "p", "p", "o", "r", "t", "e", "d">>

\* "Unsupported return value type"
MsgUnsupportedReturnValueType == <<"U", "n", "s", "u", "p", "p", "o", "r",
    "t", "e", "d", " ", "r", "e", "t", "u", "r", "n", " ", "v", "a", "l",
    "u", "e", " ", "t", "y", "p", "e">>

\* "Validation error: "
MsgValidationError == <<"V", "a", "l", "i", "d", "a", "t", "i", "o", "n",
    " ", "e", "r", "r", "o", "r", ":", " ">>

\* "Invalid number format"
MsgInvalidNumberFormat == <<"I", "n", "v", "a", "l", "i", "d", " ", "n", "u",
    "m", "b", "e", "r", " ", "f", "o", "r", "m", "a", "t">>

\* "invalid utf-8 sequence of 1 bytes from index "
MsgUtf8Invalid == <<"i", "n", "v", "a", "l", "i", "d", " ", "u", "t", "f",
    "-", "8", " ", "s", "e", "q", "u", "e", "n", "c", "e", " ", "o", "f",
    " ", "1", " ", "b", "y", "t", "e", "s", " ", "f", "r", "o", "m", " ",
    "i", "n", "d", "e", "x", " ">>

\* "incomplete utf-8 byte sequence from index "
MsgUtf8Incomplete == <<"i", "n", "c", "o", "m", "p", "l", "e", "t", "e", " ",
    "u", "t", "f", "-", "8", " ", "b", "y", "t", "e", " ", "s", "e", "q",
    "u", "e", "n", "c", "e", " ", "f", "r", "o", "m", " ", "i", "n", "d",
    "e", "x", " ">>

\* "Undeclared reference to '"
MsgUndeclaredReference == <<"U", "n", "d", "e", "c", "l", "a", "r", "e", "d",
    " ", "r", "e", "f", "e", "r", "e", "n", "c", "e", " ", "t", "o", " ",
    "'">>

\* "ERROR: <input>:1:1: Syntax error"
MsgEngineParseError == <<"E", "R", "R", "O", "R", ":", " ", "<", "i", "n",
    "p", "u", "t", ">", ":", "1", ":", "1", ":", " ", "S", "y", "n", "t",
    "a", "x", " ", "e", "r", "r", "o", "r">>

\* Display of std::str::Utf8Error
Utf8ErrorDisplay(e) ==
    (IF e.incomplete THEN MsgUtf8Incomplete ELSE MsgUtf8Invalid)
        \o << Digit(e.valid_up_to) >>

\* the f64 values of the model, and Display of f64
NonFinite == { "NaN", "inf", "-inf" }
Finite == { "0", "1.5" }
is_finite(f) == f \notin NonFinite

F64Display(f) ==
    CASE f = "NaN" -> << "N", "a", "N" >>
      [] f = "inf" -> << "i", "n", "f" >>
      [] f = "-inf" -> << "-", "i", "n", "f" >>
      [] f = "0" -> << "0" >>
      [] OTHER -> << "1", ".", "5" >>

----------------------------------------------------------------------------
(* Values: the caller's CelValue, serde_json::Value, cel_interpreter::Value *)

CelValue(t, d) == [value_type |-> t, data |-> d]
Ok(v) == [ok |-> TRUE, v |-> v]
Err(e) == [ok |-> FALSE, e |-> e]

JsonNull == [t |-> "Null"]
JsonBool(b) == [t |-> "Bool", b |-> b]
JsonNumber(n) == [t |-> "Number", n |-> n]
JsonString(s) == [t |-> "String", s |-> s]

\* serde_json::Number::from(i64) and ::from(u64): a non-negative integer is PosInt
Number_from_i64(i) == IF i < 0 THEN [k |-> "NegInt", i |-> i] ELSE [k |-> "PosInt", i |-> i]
Number_from_u64(u) == [k |-> "PosInt", i |-> u]

\* a Number::from_f64 that took every f64
Number_from_f64_any(f) == Some([k |-> "Float", f |-> f])

\* serde_json::Number::from_f64: None for a non-finite value
Number_from_f64(f) == IF is_finite(f) THEN Some([k |-> "Float", f |-> f]) ELSE None

\* serde_json::Number::as_i64 / as_u64 / as_f64 (None when it does not fit)
as_i64(n) ==
    CASE n.k = "PosInt" -> IF n.i <= I64Max THEN Some(n.i) ELSE None
      [] n.k = "NegInt" -> Some(n.i)
      [] OTHER -> None
as_u64(n) == IF n.k = "PosInt" THEN Some(n.i) ELSE None
as_f64(n) == IF n.k = "Float" THEN Some(n.f) ELSE Some([from_int |-> n.i])

\* a cel_value_to_json that took Bytes for an empty String
cel_value_to_json_bytes_as_string(value) ==
    CASE value.value_type = "Null" -> Ok(JsonNull)
      [] value.value_type = "Bool" -> Ok(JsonBool(value.data.bool_val))
      [] value.value_type = "Int" -> Ok(JsonNumber(Number_from_i64(value.data.int_val)))
      [] value.value_type = "Uint" -> Ok(JsonNumber(Number_from_u64(value.data.uint_val)))
      [] value.value_type = "Double" ->
            IF Number_from_f64(value.data.double_val).some
            THEN Ok(JsonNumber(Number_from_f64(value.data.double_val).v))
            ELSE Err(MsgInvalidFloatValue \o F64Display(value.data.double_val))
      [] value.value_type = "String" ->
            LET r == from_utf8(value.data.str)
            IN  IF r.ok THEN Ok(JsonString(r.s))
                ELSE Err(MsgInvalidUtf8String \o Utf8ErrorDisplay(r))
      [] value.value_type = "Bytes" -> Ok(JsonString(<< >>))
      [] OTHER -> Err(MsgUnsupportedValueType)

cel_value_to_json(value) ==
    CASE value.value_type = "Null" -> Ok(JsonNull)
      [] value.value_type = "Bool" -> Ok(JsonBool(value.data.bool_val))
      [] value.value_type = "Int" -> Ok(JsonNumber(Number_from_i64(value.data.int_val)))
      [] value.value_type = "Uint" -> Ok(JsonNumber(Number_from_u64(value.data.uint_val)))
      [] value.value_type = "Double" ->
            IF Number_from_f64(value.data.double_val).some
            THEN Ok(JsonNumber(Number_from_f64(value.data.double_val).v))
            ELSE Err(MsgInvalidFloatValue \o F64Display(value.data.double_val))
      [] value.value_type = "String" ->
            LET r == from_utf8(value.data.str)
            IN  IF r.ok THEN Ok(JsonString(r.s))
                ELSE Err(MsgInvalidUtf8String \o Utf8ErrorDisplay(r))
      [] OTHER -> Err(MsgUnsupportedValueType)

CelNull == [t |-> "Null"]
CelBool(b) == [t |-> "Bool", b |-> b]
CelInt(i) == [t |-> "Int", i |-> i]
CelUInt(u) == [t |-> "UInt", u |-> u]
CelFloat(f) == [t |-> "Float", f |-> f]
CelString(s) == [t |-> "String", s |-> s]
CelList == [t |-> "List"]
CelMap == [t |-> "Map"]

json_to_cel_value(value) ==
    CASE value.t = "Null" -> Ok(CelNull)
      [] value.t = "Bool" -> Ok(CelBool(value.b))
      [] value.t = "Number" ->
            IF as_i64(value.n).some THEN Ok(CelInt(as_i64(value.n).v))
            ELSE IF as_u64(value.n).some THEN Ok(CelUInt(as_u64(value.n).v))
            ELSE IF as_f64(value.n).some THEN Ok(CelFloat(as_f64(value.n).v))
            ELSE Err(MsgInvalidNumberFormat)
      [] value.t = "String" -> Ok(CelString(value.s))

----------------------------------------------------------------------------
(* The error buffer *)

\* usize subtraction x - 1 as the build without overflow checks computes it
wrapping_sub1(x) == (x - 1) % (2 ^ UsizeBits)

\* the memory at errbuf after `bytes` are copied to offset 0 and `z` is stored
\* at offset Len(bytes); memory past the end of `mem` is written all the same
WriteAt0(mem, bytes, z) ==
    LET n == Len(bytes)
        m == IF Len(mem) > n + 1 THEN Len(mem) ELSE n + 1
    IN  [i \in 1..m |-> IF i <= n THEN bytes[i] ELSE IF i = n + 1 THEN z ELSE mem[i]]

\* a copy_error_to_buffer without the test for a null pointer
copy_error_to_buffer_unguarded(error, eb, overflow_checks) ==
    IF eb.len = 0 /\ overflow_checks THEN [panic |-> TRUE, mem |-> eb.mem, len |-> eb.len]
    ELSE
        LET error_bytes == as_bytes(error)
            copy_len == Min(Len(error_bytes), wrapping_sub1(eb.len))
        IN  [panic |-> FALSE,
             mem |-> WriteAt0(eb.mem, SubSeq(error_bytes, 1, copy_len), NUL),
             len |-> copy_len]

\* a copy_error_to_buffer that left the whole capacity to the text and put
\* the terminator after it
copy_error_to_buffer_full(error, eb, overflow_checks) ==
    IF eb.null THEN [panic |-> FALSE, mem |-> eb.mem, len |-> eb.len]
    ELSE IF eb.len = 0 /\ overflow_checks THEN [panic |-> TRUE, mem |-> eb.mem, len |-> eb.len]
    ELSE
        LET error_bytes == as_bytes(error)
            copy_len == Min(Len(error_bytes), eb.len)
        IN  [panic |-> FALSE,
             mem |-> WriteAt0(eb.mem, SubSeq(error_bytes, 1, copy_len), NUL),
             len |-> copy_len]

\* copy_error_to_buffer: eb is [null, mem, len], the pointer, the memory behind
\* it and *errbuf_len; overflow_checks says how the build treats 0 - 1.
\* The outcome is the memory and *errbuf_len afterwards, or a panic.
copy_error_to_buffer(error, eb, overflow_checks) ==
    IF eb.null THEN [panic |-> FALSE, mem |-> eb.mem, len |-> eb.len]
    ELSE IF eb.len = 0 /\ overflow_checks THEN [panic |-> TRUE, mem |-> eb.mem, len |-> eb.len]
    ELSE
        LET error_bytes == as_bytes(error)
            copy_len == Min(Len(error_bytes), wrapping_sub1(eb.len))
        IN  [panic |-> FALSE,
             mem |-> WriteAt0(eb.mem, SubSeq(error_bytes, 1, copy_len), NUL),
             len |-> copy_len]

----------------------------------------------------------------------------
(* The variable extractor *)

Keywords ==
    { <<"t", "r", "u", "e">>
    , <<"f", "a", "l", "s", "e">>
    , <<"n", "u", "l", "l">>
    , <<"i", "n">>
    , <<"a", "n", "d">>
    , <<"o", "r">>
    , <<"n", "o", "t">>
    , <<"h", "a", "s">>
    , <<"a", "l", "l">>
    , <<"e", "x", "i", "s", "t", "s">>
    , <<"e", "x", "i", "s", "t", "s", "_", "o", "n", "e">>
    , <<"m", "a", "p">>
    , <<"f", "i", "l", "t", "e", "r">>
    , <<"i", "f">>
    , <<"e", "l", "s", "e">>
    , <<"e", "n", "d", "i", "f">>
    }

BuiltinFunctions ==
    { <<"s", "i", "z", "e">>
    , <<"i", "n", "t">>
    , <<"u", "i", "n", "t">>
    , <<"d", "o", "u", "b", "l", "e">>
    , <<"s", "t", "r", "i", "n", "g">>
    , <<"b", "y", "t", "e", "s">>
    , <<"d", "u", "r", "a", "t", "i", "o", "n">>
    , <<"t", "i", "m", "e", "s", "t", "a", "m", "p">>
    , <<"t", "y", "p", "e">>
    , <<"d", "y", "n">>
    , <<"h", "a", "s">>
    , <<"s", "t", "a", "r", "t", "s", "W", "i", "t", "h">>
    , <<"e", "n", "d", "s", "W", "i", "t", "h">>
    , <<"c", "o", "n", "t", "a", "i", "n", "s">>
    , <<"m", "a", "t", "c", "h", "e", "s">>
    }

\* no word is a keyword
is_keyword_none(word) == FALSE

is_keyword(word) == word \in Keywords
is_builtin_function(word) == word \in BuiltinFunctions

\* a scan for the closing quote that takes a backslash as a plain character
RECURSIVE SkipQuoted_no_escape(_, _, _)
SkipQuoted_no_escape(e, j, q) ==
    IF j > Len(e) THEN Len(e) + 1
    ELSE IF e[j] = q THEN j + 1
    ELSE SkipQuoted_no_escape(e, j + 1, q)

\* the index after a quoted literal whose body starts at index j: after the
\* closing quote q, or past the end of the text when there is none; a backslash
\* takes the character after it along
RECURSIVE SkipQuoted(_, _, _)
SkipQuoted(e, j, q) ==
    IF j > Len(e) THEN Len(e) + 1
    ELSE IF e[j] = q THEN j + 1
    ELSE IF e[j] = "\\" THEN SkipQuoted(e, j + 2, q)
    ELSE SkipQuoted(e, j + 1, q)

RECURSIVE remove_from(_, _)
remove_from(e, i) ==
    IF i > Len(e) THEN << >>
    ELSE IF e[i] = "\"" \/ e[i] = "'"
         THEN << " " >> \o remove_from(e, SkipQuoted(e, i + 1, e[i]))
         ELSE << e[i] >> \o remove_from(e, i + 1)

remove_strings_and_literals(expression) == remove_from(expression, 1)

\* skip_whitespace: the index of the first non-whitespace character from i on
RECURSIVE skip_whitespace(_, _)
skip_whitespace(c, i) ==
    IF i <= Len(c) /\ is_whitespace(c[i]) THEN skip_whitespace(c, i + 1) ELSE i

\* the index after the run of identifier characters that starts at i
RECURSIVE SkipWord(_, _)
SkipWord(c, i) ==
    IF i <= Len(c) /\ (is_alphanumeric(c[i]) \/ c[i] = "_") THEN SkipWord(c, i + 1) ELSE i

\* no dotted suffix is skipped
SkipFieldAccess_none(c, i) == i

\* the index after the dotted suffix that starts at i: each "." and the
\* identifier characters after it
RECURSIVE SkipFieldAccess(_, _)
SkipFieldAccess(c, i) ==
    IF i <= Len(c) /\ c[i] = "." THEN SkipFieldAccess(c, SkipWord(c, i + 1)) ELSE i

\* the index after the number that starts before i: digits and dots
RECURSIVE SkipNumber(_, _)
SkipNumber(c, i) ==
    IF i <= Len(c) /\ (is_numeric(c[i]) \/ c[i] = ".") THEN SkipNumber(c, i + 1) ELSE i

\* a look-ahead that does not skip whitespace
IsCall_adjacent(c, j) == j <= Len(c) /\ c[j] = "("

\* the look-ahead for a function call: the next non-whitespace character
\* from index j on is "("
IsCall(c, j) == LET k == skip_whitespace(c, j) IN k <= Len(c) /\ c[k] = "("

\* the main loop of extract_variables over the cleaned text c from index i on
RECURSIVE scan(_, _)
scan(c, i) ==
    IF i > Len(c) THEN { }
    ELSE IF is_alphabetic(c[i]) \/ c[i] = "_" THEN
        LET j == SkipWord(c, i + 1)
            current_word == SubSeq(c, i, j - 1)
        IN  IF ~is_keyword(current_word) /\ ~is_builtin_function(current_word)
            THEN IF IsCall(c, j)
                 THEN scan(c, j)
                 ELSE { current_word } \cup scan(c, SkipFieldAccess(c, j))
            ELSE scan(c, SkipFieldAccess(c, j))
    ELSE IF is_numeric(c[i]) THEN scan(c, SkipNumber(c, i + 1))
    ELSE scan(c, i + 1)

\* extract_variables: the Vec it returns holds each name once, in the
\* HashSet's iteration order; the model keeps the set
extract_variables(expression) == scan(remove_strings_and_literals(expression), 1)

----------------------------------------------------------------------------
(* The string buffers *)

FreeBlock == [alloc |-> FALSE, bytes |-> << >>]
Block(bytes) == [alloc |-> TRUE, bytes |-> bytes]

Contains(s, x) == \E i \in 1..Len(s) : s[i] = x

\* an allocator that returned any address
Allocatable_any == Addrs

\* the addresses the allocator may return: a free one, or, once a block has
\* been freed twice, that block although it is in use
Allocatable == { a \in Addrs : ~pool[a].alloc \/ a \in doubleFreed }

\* store_string_in_pool(s) returning ptr: CString::new(s).unwrap() panics on
\* a zero byte in s; otherwise the bytes and a terminator are leaked at ptr
StorePanics(s) == Contains(as_bytes(s), NUL)

store_string_in_pool(s, ptr) ==
    /\ ~StorePanics(s)
    /\ ptr \in Allocatable
    /\ pool' = [pool EXCEPT ![ptr] = Block(as_bytes(s) \o << NUL >>)]
    /\ doubleFreed' = IF pool[ptr].alloc THEN doubleFreed \ { ptr } ELSE doubleFreed

\* what freeing a block that is not in use can do (undefined behaviour): the
\* allocator aborts the process, or takes the block as free a second time
UBOutcomes == { "abort", "free again" }

\* release_string_from_pool(ptr): null is ignored; a block in use is freed;
\* anything else is read and freed all the same, with outcome ub
release_string_from_pool(ptr, ub) ==
    IF ptr = 0 THEN
        UNCHANGED <<pool, doubleFreed, aborted>>
    ELSE IF pool[ptr].alloc THEN
        /\ pool' = [pool EXCEPT ![ptr] = FreeBlock]
        /\ UNCHANGED <<doubleFreed, aborted>>
    ELSE
        /\ aborted' = (ub = "abort")
        /\ doubleFreed' = IF ub = "abort" THEN doubleFreed ELSE doubleFreed \cup { ptr }
        /\ UNCHANGED pool

----------------------------------------------------------------------------
(* Context and Program *)

EmptyMap == [n \in { } |-> JsonNull]
NoContext == [live |-> FALSE, variables |-> EmptyMap]
NoProgram == [live |-> FALSE, program |-> None, variables |-> { }]

\* an insert that kept the value of a key already present
Insert_if_absent(m, k, v) == [n \in DOMAIN m \cup { k } |-> IF n \in DOMAIN m THEN m[n] ELSE v]

\* HashMap::insert
Insert(m, k, v) == [n \in DOMAIN m \cup { k } |-> IF n = k THEN v ELSE m[n]]

Context_new == [live |-> TRUE, variables |-> EmptyMap]
Context_add_variable(c, name, value) == [c EXCEPT !.variables = Insert(c.variables, name, value)]
\* a reset that kept the bindings
Context_reset_keep(c) == c

Context_reset(c) == [c EXCEPT !.variables = EmptyMap]

Program_new == [live |-> TRUE, program |-> None, variables |-> { }]

\* the engine on the texts of the model: a one-letter reference x, the lists
\* [x] and [x,y] and the empty map {} compile, every other text is a syntax
\* error
IsRef(text) == Len(text) = 1 /\ text[1] \in AsciiLetters
IsListOfRef(text) == Len(text) = 3 /\ text[1] = "[" /\ text[2] \in AsciiLetters /\ text[3] = "]"
IsEmptyMap(text) == text = << "{", "}" >>
IsListOfTwo(text) ==
    /\ Len(text) = 5 /\ text[1] = "[" /\ text[3] = "," /\ text[5] = "]"
    /\ text[2] \in AsciiLetters /\ text[4] \in AsciiLetters

CelProgram_compile(expression) ==
    IF \/ IsRef(expression) \/ IsListOfRef(expression) \/ IsEmptyMap(expression)
       \/ IsListOfTwo(expression)
    THEN Ok([expr |-> expression])
    ELSE Err(MsgEngineParseError)

\* the engine evaluating a compiled text against its bindings
CelProgram_execute(p, cel_ctx) ==
    IF IsEmptyMap(p.expr) THEN Ok(CelMap)
    ELSE
        LET name == IF IsRef(p.expr) THEN p.expr ELSE << p.expr[2] >>
            second == IF IsListOfTwo(p.expr) THEN << p.expr[4] >> ELSE name
        IN  IF name \notin DOMAIN cel_ctx
            THEN Err(MsgUndeclaredReference \o name \o << "'" >>)
            ELSE IF second \notin DOMAIN cel_ctx
            THEN Err(MsgUndeclaredReference \o second \o << "'" >>)
            ELSE IF IsRef(p.expr) THEN Ok(cel_ctx[name])
            ELSE Ok(CelList)

\* a Program::compile that took the variable set from the text before it knew
\* whether the text compiles
Program_compile_variables_first(prog, expression) ==
    LET r == CelProgram_compile(expression)
        p == [prog EXCEPT !.variables = extract_variables(expression)]
    IN  IF r.ok
        THEN [prog |-> [p EXCEPT !.program = Some(r.v)], ok |-> TRUE, e |-> << >>]
        ELSE [prog |-> p, ok |-> FALSE, e |-> MsgCompilationError \o r.e]

\* a Program::compile that kept the variable set of the text before
Program_compile_keeps_variables(prog, expression) ==
    LET r == CelProgram_compile(expression)
    IN  IF r.ok
        THEN [prog |-> [prog EXCEPT !.program = Some(r.v)], ok |-> TRUE, e |-> << >>]
        ELSE [prog |-> prog, ok |-> FALSE, e |-> MsgCompilationError \o r.e]

\* Program::compile: the Program afterwards and the Result
Program_compile(prog, expression) ==
    LET r == CelProgram_compile(expression)
    IN  IF r.ok
        THEN [prog |-> [prog EXCEPT !.variables = extract_variables(expression),
                                    !.program = Some(r.v)],
              ok |-> TRUE, e |-> << >>]
        ELSE [prog |-> prog, ok |-> FALSE, e |-> MsgCompilationError \o r.e]

\* a Program::execute that gave the engine no bindings
Program_execute_no_bindings(prog, ctx) ==
    IF ~prog.program.some THEN { Err(MsgNoExpressionCompiled) }
    ELSE LET r == CelProgram_execute(prog.program.v, [n \in { } |-> CelNull])
         IN  IF r.ok THEN { r } ELSE { Err(MsgExecutionError \o r.e) }

\* a Program::execute that evaluated nothing to null when no text is compiled
Program_execute_or_null(prog, ctx) ==
    IF ~prog.program.some THEN { Ok(CelNull) }
    ELSE
        LET vs == ctx.variables
            failing == { n \in DOMAIN vs : ~json_to_cel_value(vs[n]).ok }
        IN  IF failing # { }
            THEN { Err(MsgErrorConvertingVariable \o n \o MsgQuoteColon
                        \o json_to_cel_value(vs[n]).e) : n \in failing }
            ELSE LET cel_ctx == [n \in DOMAIN vs |-> json_to_cel_value(vs[n]).v]
                     r == CelProgram_execute(prog.program.v, cel_ctx)
                 IN  IF r.ok THEN { r } ELSE { Err(MsgExecutionError \o r.e) }

\* Program::execute: the Results it can return (the HashMap's iteration order
\* decides which variable's conversion error is reported)
Program_execute(prog, ctx) ==
    IF ~prog.program.some THEN { Err(MsgNoExpressionCompiled) }
    ELSE
        LET vs == ctx.variables
            failing == { n \in DOMAIN vs : ~json_to_cel_value(vs[n]).ok }
        IN  IF failing # { }
            THEN { Err(MsgErrorConvertingVariable \o n \o MsgQuoteColon
                        \o json_to_cel_value(vs[n]).e) : n \in failing }
            ELSE LET cel_ctx == [n \in DOMAIN vs |-> json_to_cel_value(vs[n]).v]
                     r == CelProgram_execute(prog.program.v, cel_ctx)
                 IN  IF r.ok THEN { r } ELSE { Err(MsgExecutionError \o r.e) }

----------------------------------------------------------------------------
(* The caller's arguments *)

ZeroData == [bool_val |-> FALSE, int_val |-> 0, uint_val |-> 0, double_val |-> "0",
             str |-> << >>, ptr |-> 0, len |-> 0]

NullValue == CelValue("Null", ZeroData)
BoolValue(b) == CelValue("Bool", [ZeroData EXCEPT !.bool_val = b])
IntValue(i) == CelValue("Int", [ZeroData EXCEPT !.int_val = i])
UintValue(u) == CelValue("Uint", [ZeroData EXCEPT !.uint_val = u])
DoubleValue(f) == CelValue("Double", [ZeroData EXCEPT !.double_val = f])
\* a String the caller passes in: the bytes at its ptr, and their count
StringValue(bytes) == CelValue("String", [ZeroData EXCEPT !.str = bytes, !.len = Len(bytes)])
\* a String the library hands out: a buffer address and the length
StringRef(ptr, len) == CelValue("String", [ZeroData EXCEPT !.ptr = ptr, !.len = len])

\* an error buffer of c bytes the caller has filled with "#"
FreshErr(c) == [null |-> FALSE, mem |-> [i \in 1..c |-> "#"], len |-> c]
\* no error buffer
NullErr(c) == [null |-> TRUE, mem |-> << >>, len |-> c]
\* the error buffer of the call before, passed again as that call left it
ReusedErr == [null |-> FALSE, mem |-> << >>, len |-> 0, reused |-> TRUE]

\* what the caller sees of a call: the function, whether it returned true (a
\* function without a result counts as true) and the diagnostic it produced
Call(fn, ok, error) == [fn |-> fn, ok |-> ok, error |-> error]

----------------------------------------------------------------------------
(* The boundary calls.  Every call is made by a live process on live handles. *)

\* the history of the handles: the text of the most recent compile that
\* returned true on the Program, and whether a compile returned false on it;
\* for each name, the value of the most recent
\* add that returned true on the Context since it was new or reset; whether
\* such an add replaced an earlier value; the names whose bindings a reset
\* dropped and that were not added since
NoneAdded == [n \in { } |-> NullValue]
NoHistory == [compiled |-> None, compile_failed |-> FALSE, added |-> NoneAdded,
              overwrote |-> FALSE, dropped |-> { }]
Added(name, value) ==
    [history EXCEPT !.added = [n \in DOMAIN history.added \cup { name } |->
                                    IF n = name THEN value ELSE history.added[n]],
                    !.overwrote = history.overwrote \/ name \in DOMAIN history.added,
                    !.dropped = @ \ { name }]

\* a call other than program_validate, made by the one calling thread
NotValidate ==
    /\ variables_len' = None
    /\ UNCHANGED <<threads, input, extracted, cleaned>>

\* a call that takes no result slot and no error buffer
NoOutParams ==
    /\ result' = NullValue
    /\ errbuf' = << >>
    /\ errbuf_len' = 0

\* the pointer, memory and capacity a call is given: for the buffer of the
\* call before, what that call left there
Given(eb) ==
    IF "reused" \in DOMAIN eb
    THEN [null |-> FALSE, mem |-> errbuf, len |-> errbuf_len]
    ELSE eb

\* the call before took a buffer, and did not overrun it (a buffer that was
\* overrun is not followed further)
Usable(eb) ==
    "reused" \in DOMAIN eb =>
        Len(errbuf) > 0 /\ Len(errbuf) <= ErrCap /\ errbuf_len < Len(errbuf)

\* a call that writes no diagnostic returns: the error buffer is as passed in
Succeed(c, eb) ==
    /\ Usable(eb)
    /\ call' = c
    /\ errbuf' = Given(eb).mem
    /\ errbuf_len' = Given(eb).len

\* the builds: with or without overflow checks, which differ on 0 - 1 only
Builds(eb) == IF ~Given(eb).null /\ Given(eb).len = 0 THEN BOOLEAN ELSE { TRUE }

\* a failing call writes its diagnostic and returns false, or panics there
Fail(c, eb) ==
    /\ Usable(eb)
    /\ \E overflow_checks \in Builds(eb) :
        LET r == copy_error_to_buffer(c.error, Given(eb), overflow_checks)
        IN  /\ call' = c
            /\ errbuf' = r.mem
            /\ errbuf_len' = r.len
            /\ aborted' = r.panic

context_new ==
    /\ ~aborted /\ ~context.live
    /\ context' = Context_new
    /\ call' = Call("context_new", TRUE, << >>)
    /\ history' = [history EXCEPT !.added = NoneAdded, !.overwrote = FALSE,
                                  !.dropped = { }]
    /\ NoOutParams /\ UNCHANGED <<pool, doubleFreed, aborted, program>>
    /\ NotValidate

\* a context_free that dropped the caller's Context on a null handle
context_free_drops_on_null(null) ==
    /\ ~aborted /\ (null \/ context.live)
    /\ context' = NoContext
    /\ call' = Call("context_free", TRUE, << >>)
    /\ history' = [history EXCEPT !.added = NoneAdded, !.overwrote = FALSE,
                                  !.dropped = { }]
    /\ NoOutParams /\ UNCHANGED <<pool, doubleFreed, aborted, program>>
    /\ NotValidate

context_free(null) ==
    /\ ~aborted /\ (null \/ context.live)
    /\ context' = IF null THEN context ELSE NoContext
    /\ call' = Call("context_free", TRUE, << >>)
    /\ history' = IF null THEN history
                  ELSE [history EXCEPT !.added = NoneAdded, !.overwrote = FALSE,
                                       !.dropped = { }]
    /\ NoOutParams /\ UNCHANGED <<pool, doubleFreed, aborted, program>>
    /\ NotValidate

\* a context_add_variable that bound the name to null when the value has no
\* generic form
context_add_variable_result_null(c, name, value) ==
    LET name_str == CStr_to_str(name)
        json_value == cel_value_to_json(value)
    IN  IF ~name_str.ok THEN
            [context |-> c, ok |-> FALSE,
             e |-> MsgInvalidVariableName \o Utf8ErrorDisplay(name_str)]
        ELSE IF ~json_value.ok THEN
            [context |-> Context_add_variable(c, name_str.s, JsonNull),
             ok |-> FALSE, e |-> json_value.e]
        ELSE
            [context |-> Context_add_variable(c, name_str.s, json_value.v),
             ok |-> TRUE, e |-> << >>]

\* context_add_variable without its error buffer: the Context afterwards,
\* the return value and the diagnostic
context_add_variable_result(c, name, value) ==
    LET name_str == CStr_to_str(name)
        json_value == cel_value_to_json(value)
    IN  IF ~name_str.ok THEN
            [context |-> c, ok |-> FALSE,
             e |-> MsgInvalidVariableName \o Utf8ErrorDisplay(name_str)]
        ELSE IF ~json_value.ok THEN
            [context |-> c, ok |-> FALSE, e |-> json_value.e]
        ELSE
            [context |-> Context_add_variable(c, name_str.s, json_value.v),
             ok |-> TRUE, e |-> << >>]

context_add_variable(name, value, eb) ==
    /\ ~aborted /\ context.live
    /\ LET r == context_add_variable_result(context, name, value)
           c == Call("context_add_variable", r.ok, r.e)
       IN  /\ context' = r.context
           /\ IF r.ok
              THEN /\ Succeed(c, eb)
                   /\ history' = Added(CStr_to_str(name).s, value)
                   /\ UNCHANGED aborted
              ELSE /\ Fail(c, eb)
                   /\ UNCHANGED history
    /\ result' = NullValue
    /\ UNCHANGED <<pool, doubleFreed, program>>
    /\ NotValidate

context_reset ==
    /\ ~aborted /\ context.live
    /\ context' = Context_reset(context)
    /\ call' = Call("context_reset", TRUE, << >>)
    /\ history' = [history EXCEPT !.added = NoneAdded, !.overwrote = FALSE,
                                  !.dropped = @ \cup DOMAIN history.added]
    /\ NoOutParams /\ UNCHANGED <<pool, doubleFreed, aborted, program>>
    /\ NotValidate

program_new ==
    /\ ~aborted /\ ~program.live
    /\ program' = Program_new
    /\ call' = Call("program_new", TRUE, << >>)
    /\ history' = [history EXCEPT !.compiled = None, !.compile_failed = FALSE]
    /\ NoOutParams /\ UNCHANGED <<pool, doubleFreed, aborted, context>>
    /\ NotValidate

program_free(null) ==
    /\ ~aborted /\ (null \/ program.live)
    /\ program' = IF null THEN program ELSE NoProgram
    /\ call' = Call("program_free", TRUE, << >>)
    /\ history' = IF null THEN history
                  ELSE [history EXCEPT !.compiled = None, !.compile_failed = FALSE]
    /\ NoOutParams /\ UNCHANGED <<pool, doubleFreed, aborted, context>>
    /\ NotValidate

program_compile(expression, eb) ==
    /\ ~aborted /\ program.live
    /\ LET expr_str == CStr_to_str(expression)
           c(ok, e) == Call("program_compile", ok, e)
       IN  IF ~expr_str.ok THEN
               /\ Fail(c(FALSE, MsgInvalidExpressionString \o Utf8ErrorDisplay(expr_str)), eb)
               /\ history' = [history EXCEPT !.compile_failed = TRUE]
               /\ UNCHANGED program
           ELSE
               LET r == Program_compile(program, expr_str.s)
               IN  /\ program' = r.prog
                   /\ IF r.ok
                      THEN /\ Succeed(c(TRUE, << >>), eb)
                           /\ history' = [history EXCEPT !.compiled = Some(expr_str.s)]
                           /\ UNCHANGED aborted
                      ELSE /\ Fail(c(FALSE, r.e), eb)
                           /\ history' = [history EXCEPT !.compile_failed = TRUE]
    /\ result' = NullValue
    /\ UNCHANGED <<pool, doubleFreed, context>>
    /\ NotValidate

\* a program_validate that stored a count of zero when the text does not compile
program_validate_zero_on_failure(expression, null, eb) ==
    /\ ~aborted
    /\ LET expr_str == CStr_to_str(expression)
           c(ok, e) == Call("program_validate", ok, e)
       IN  IF ~expr_str.ok THEN
               /\ Fail(c(FALSE, MsgInvalidExpressionString \o Utf8ErrorDisplay(expr_str)), eb)
               /\ variables_len' = None
           ELSE
               LET r == CelProgram_compile(expr_str.s)
               IN  /\ variables_len' =
                        IF null THEN None
                        ELSE IF r.ok THEN Some(Cardinality(extract_variables(expr_str.s)))
                        ELSE Some(0)
                   /\ IF r.ok
                      THEN Succeed(c(TRUE, << >>), eb) /\ UNCHANGED aborted
                      ELSE Fail(c(FALSE, MsgValidationError \o r.e), eb)
    /\ result' = NullValue
    /\ UNCHANGED <<pool, doubleFreed, context, program, history, threads, input, extracted, cleaned>>

\* program_validate(expression, _variables, variables_len, errbuf, errbuf_len):
\* null says that variables_len is a null pointer
program_validate(expression, null, eb) ==
    /\ ~aborted
    /\ LET expr_str == CStr_to_str(expression)
           c(ok, e) == Call("program_validate", ok, e)
       IN  IF ~expr_str.ok THEN
               /\ Fail(c(FALSE, MsgInvalidExpressionString \o Utf8ErrorDisplay(expr_str)), eb)
               /\ variables_len' = None
           ELSE
               LET r == CelProgram_compile(expr_str.s)
               IN  IF r.ok
                   THEN /\ Succeed(c(TRUE, << >>), eb)
                        /\ variables_len' =
                                IF null THEN None
                                ELSE Some(Cardinality(extract_variables(expr_str.s)))
                        /\ UNCHANGED aborted
                   ELSE /\ Fail(c(FALSE, MsgValidationError \o r.e), eb)
                        /\ variables_len' = None
    /\ result' = NullValue
    /\ UNCHANGED <<pool, doubleFreed, context, program, history, threads, input, extracted, cleaned>>

\* cel_value_to_c_value on a scalar that needs no buffer: the slot afterwards
ScalarSlot(value, slot) ==
    CASE value.t = "Null" -> [slot EXCEPT !.value_type = "Null"]
      [] value.t = "Bool" -> [slot EXCEPT !.value_type = "Bool", !.data.bool_val = value.b]
      [] value.t = "Int" -> [slot EXCEPT !.value_type = "Int", !.data.int_val = value.i]
      [] value.t = "UInt" -> [slot EXCEPT !.value_type = "Uint", !.data.uint_val = value.u]
      [] value.t = "Float" -> [slot EXCEPT !.value_type = "Double", !.data.double_val = value.f]

\* a cel_value_to_c_value that wrote null for a list or a map
cel_value_to_c_value_composite_as_null(value, slot, null_result, eb) ==
    LET c(ok, e) == Call("program_execute", ok, e)
    IN  IF null_result THEN
            /\ Fail(c(FALSE, MsgResultPointerIsNull), eb)
            /\ result' = slot
            /\ UNCHANGED <<pool, doubleFreed>>
        ELSE IF value.t = "String" THEN
            /\ ~StorePanics(value.s)
            /\ \E ptr \in Allocatable :
                    /\ store_string_in_pool(value.s, ptr)
                    /\ result' = [slot EXCEPT !.value_type = "String", !.data.ptr = ptr,
                                              !.data.len = Len(as_bytes(value.s))]
                    /\ Succeed(c(TRUE, << >>), eb)
                    /\ UNCHANGED aborted
        ELSE
            /\ result' = IF value.t \in { "List", "Map" }
                         THEN [slot EXCEPT !.value_type = "Null"]
                         ELSE ScalarSlot(value, slot)
            /\ Succeed(c(TRUE, << >>), eb)
            /\ UNCHANGED <<pool, doubleFreed, aborted>>

\* a cel_value_to_c_value that tested the result pointer after it had
\* converted the value
cel_value_to_c_value_late_null_test(value, slot, null_result, eb) ==
    LET c(ok, e) == Call("program_execute", ok, e)
    IN  IF value.t = "List" THEN
            /\ Fail(c(FALSE, MsgListNotSupported), eb)
            /\ result' = slot
            /\ UNCHANGED <<pool, doubleFreed>>
        ELSE IF value.t = "Map" THEN
            /\ Fail(c(FALSE, MsgMapNotSupported), eb)
            /\ result' = slot
            /\ UNCHANGED <<pool, doubleFreed>>
        ELSE IF value.t = "String" THEN
            /\ ~StorePanics(value.s)
            /\ \E ptr \in Allocatable :
                    /\ store_string_in_pool(value.s, ptr)
                    /\ IF null_result
                       THEN /\ Fail(c(FALSE, MsgResultPointerIsNull), eb)
                            /\ result' = slot
                       ELSE /\ result' = [slot EXCEPT !.value_type = "String",
                                                      !.data.ptr = ptr,
                                                      !.data.len = Len(as_bytes(value.s))]
                            /\ Succeed(c(TRUE, << >>), eb)
                            /\ UNCHANGED aborted
        ELSE IF null_result THEN
            /\ Fail(c(FALSE, MsgResultPointerIsNull), eb)
            /\ result' = slot
            /\ UNCHANGED <<pool, doubleFreed>>
        ELSE
            /\ result' = ScalarSlot(value, slot)
            /\ Succeed(c(TRUE, << >>), eb)
            /\ UNCHANGED <<pool, doubleFreed, aborted>>

\* cel_value_to_c_value(value, result), and what program_execute does with
\* its Result; slot is what the caller's result slot held, and a null result
\* pointer leaves it alone
cel_value_to_c_value(value, slot, null_result, eb) ==
    LET c(ok, e) == Call("program_execute", ok, e)
    IN  IF null_result THEN
            /\ Fail(c(FALSE, MsgResultPointerIsNull), eb)
            /\ result' = slot
            /\ UNCHANGED <<pool, doubleFreed>>
        ELSE IF value.t = "List" THEN
            /\ Fail(c(FALSE, MsgListNotSupported), eb)
            /\ result' = slot
            /\ UNCHANGED <<pool, doubleFreed>>
        ELSE IF value.t = "Map" THEN
            /\ Fail(c(FALSE, MsgMapNotSupported), eb)
            /\ result' = slot
            /\ UNCHANGED <<pool, doubleFreed>>
        ELSE IF value.t = "String" THEN
            IF StorePanics(value.s) THEN
                \* the kind is written before store_string_in_pool panics
                /\ result' = [slot EXCEPT !.value_type = "String"]
                /\ aborted' = TRUE
                /\ call' = c(FALSE, << >>)
                /\ Usable(eb)
                /\ errbuf' = Given(eb).mem
                /\ errbuf_len' = Given(eb).len
                /\ UNCHANGED <<pool, doubleFreed>>
            ELSE
                \E ptr \in Allocatable :
                    /\ store_string_in_pool(value.s, ptr)
                    /\ result' = [slot EXCEPT !.value_type = "String", !.data.ptr = ptr,
                                              !.data.len = Len(as_bytes(value.s))]
                    /\ Succeed(c(TRUE, << >>), eb)
                    /\ UNCHANGED aborted
        ELSE
            /\ result' = ScalarSlot(value, slot)
            /\ Succeed(c(TRUE, << >>), eb)
            /\ UNCHANGED <<pool, doubleFreed, aborted>>

\* a program_execute that cleared the result slot when the evaluation failed
program_execute_clears_slot(slot, null_result, eb) ==
    /\ ~aborted /\ program.live /\ context.live
    /\ \E r \in Program_execute(program, context) :
        IF r.ok THEN cel_value_to_c_value(r.v, slot, null_result, eb)
        ELSE /\ Fail(Call("program_execute", FALSE, r.e), eb)
             /\ result' = IF null_result THEN slot ELSE NullValue
             /\ UNCHANGED <<pool, doubleFreed>>
    /\ UNCHANGED <<context, program, history>>
    /\ NotValidate

program_execute(slot, null_result, eb) ==
    /\ ~aborted /\ program.live /\ context.live
    /\ \E r \in Program_execute(program, context) :
        IF r.ok THEN cel_value_to_c_value(r.v, slot, null_result, eb)
        ELSE /\ Fail(Call("program_execute", FALSE, r.e), eb)
             /\ result' = slot
             /\ UNCHANGED <<pool, doubleFreed>>
    /\ UNCHANGED <<context, program, history>>
    /\ NotValidate

\* a direct call of store_string_in_pool(s) from Rust code, which returns ptr
Store(s) ==
    /\ ~aborted
    /\ IF StorePanics(s) THEN
           /\ aborted' = TRUE
           /\ call' = Call("store_string_in_pool", FALSE, << >>)
           /\ UNCHANGED <<pool, doubleFreed>>
       ELSE
           \E ptr \in Allocatable :
               /\ store_string_in_pool(s, ptr)
               /\ call' = Call("store_string_in_pool", TRUE, << >>)
               /\ UNCHANGED aborted
    /\ NoOutParams /\ UNCHANGED <<context, program, history>>
    /\ NotValidate

cel_string_free(ptr) ==
    /\ ~aborted
    /\ \E ub \in UBOutcomes : release_string_from_pool(ptr, ub)
    /\ call' = Call("cel_string_free", TRUE, << >>)
    /\ NoOutParams /\ UNCHANGED <<context, program, history>>
    /\ NotValidate

cel_clear_string_pool ==
    /\ ~aborted
    /\ call' = Call("cel_clear_string_pool", TRUE, << >>)
    /\ NoOutParams
    /\ UNCHANGED <<pool, doubleFreed, aborted, context, program, history>>
    /\ NotValidate

----------------------------------------------------------------------------
(* Threads that each store one string and release it, as in
   test_string_pool_concurrent_access.  The allocator serialises allocation
   and deallocation; the copy into the block and the scan for its terminator
   are steps of their own. *)

\* number of threads
NThreads == 2
Threads == 1..NThreads

Idle == [pc |-> "idle", s |-> << >>, ptr |-> 0, seen |-> << >>]
NoThreads == [t \in Threads |-> Idle]

\* the frame of a step of a thread
ThreadStep ==
    UNCHANGED <<context, program, result, errbuf, errbuf_len, call, history,
                variables_len, input, extracted, cleaned>>

\* the bytes before the first zero byte from the start of a block
RECURSIVE to_bytes(_)
to_bytes(bytes) ==
    IF bytes = << >> \/ Head(bytes) = NUL THEN << >>
    ELSE << Head(bytes) >> \o to_bytes(Tail(bytes))

\* store_string_in_pool(s) in thread t, first half: the allocator returns a block
thread_alloc(t, s) ==
    /\ ~aborted /\ threads[t].pc = "idle" /\ ~StorePanics(s)
    /\ \E ptr \in Allocatable :
        /\ pool' = [pool EXCEPT ![ptr] = Block(<< >>)]
        /\ doubleFreed' = IF pool[ptr].alloc THEN doubleFreed \ { ptr } ELSE doubleFreed
        /\ threads' = [threads EXCEPT ![t] = [@ EXCEPT !.pc = "allocated", !.s = s, !.ptr = ptr]]
    /\ UNCHANGED aborted /\ ThreadStep

\* second half: the text and its terminator are copied into the block, and
\* its address is returned
thread_copy(t) ==
    /\ ~aborted /\ threads[t].pc = "allocated"
    /\ pool' = [pool EXCEPT ![threads[t].ptr].bytes = as_bytes(threads[t].s) \o << NUL >>]
    /\ threads' = [threads EXCEPT ![t].pc = "stored"]
    /\ UNCHANGED <<doubleFreed, aborted>> /\ ThreadStep

\* release_string_from_pool(ptr) in thread t, first half: CStr::from_ptr
\* reads the block up to its terminator
thread_scan(t) ==
    /\ ~aborted /\ threads[t].pc = "stored"
    /\ threads' = [threads EXCEPT ![t] =
                        [@ EXCEPT !.pc = "scanned", !.seen = to_bytes(pool[threads[t].ptr].bytes)]]
    /\ UNCHANGED <<pool, doubleFreed, aborted>> /\ ThreadStep

\* second half: the Box over the block is dropped
thread_drop(t) ==
    /\ ~aborted /\ threads[t].pc = "scanned"
    /\ \E ub \in UBOutcomes : release_string_from_pool(threads[t].ptr, ub)
    /\ threads' = [threads EXCEPT ![t].pc = "done"]
    /\ ThreadStep

----------------------------------------------------------------------------
(* Specifications *)

Text_v == << "v" >>
Text_w == << "w" >>
E_ACUTE == << "0xC3", "0xA9" >>

Init ==
    /\ pool = [a \in Addrs |-> FreeBlock]
    /\ doubleFreed = { }
    /\ aborted = FALSE
    /\ context = NoContext
    /\ program = NoProgram
    /\ result = NullValue
    /\ errbuf = << >>
    /\ errbuf_len = 0
    /\ call = Call("", TRUE, << >>)
    /\ history = NoHistory
    /\ variables_len = None
    /\ threads = NoThreads
    /\ input = << >>
    /\ extracted = None
    /\ cleaned = None

\* the buffers in use
Live == { a \in Addrs : pool[a].alloc }

\* every call of the boundary, with arguments from the sets of A; A.ptrs is
\* "any" when callers also release addresses that hold no buffer
NextOn(A) ==
    \/ context_new
    \/ \E null \in BOOLEAN : context_free(null)
    \/ \E name \in A.names, value \in A.values, eb \in A.errs :
            context_add_variable(name, value, eb)
    \/ context_reset
    \/ program_new
    \/ \E null \in BOOLEAN : program_free(null)
    \/ \E expression \in A.exprs, eb \in A.errs : program_compile(expression, eb)
    \/ \E slot \in A.slots, null_result \in A.null_results, eb \in A.errs :
            program_execute(slot, null_result, eb)
    \/ \E expression \in A.validates, null \in BOOLEAN, eb \in A.errs :
            program_validate(expression, null, eb)
    \/ \E s \in A.stores : Store(s)
    \/ \E ptr \in { 0 } \cup (IF A.ptrs = "any" THEN Addrs ELSE Live) : cel_string_free(ptr)
    \/ cel_clear_string_pool

\* the error buffers a caller passes: fresh ones of the capacities in caps
FreshErrs(caps) == { FreshErr(c) : c \in caps }

\* the string buffers under every operation, stale releases included
PoolArgs ==
    [names |-> { Text_v },
     values |-> { StringValue(E_ACUTE), StringValue(<< NUL >>) },
     exprs |-> { Text_v, << "v", "+" >> },
     validates |-> { Text_v },
     stores |-> { << >> },
     errs |-> { NullErr(0) },
     slots |-> { NullValue },
     null_results |-> { FALSE },
     ptrs |-> "any"]

NextPool == NextOn(PoolArgs)
SpecPool == Init /\ [][NextPool]_vars

\* String results; callers release only the buffers they hold
StrArgs ==
    [names |-> { Text_v },
     values |-> { StringValue(<< >>), StringValue(E_ACUTE), StringValue(<< NUL >>),
                  StringValue(<< "0xFF" >>) },
     exprs |-> { Text_v, << "[", "v", "]" >> },
     validates |-> { Text_v },
     stores |-> { << "U+00E9" >> },
     errs |-> FreshErrs({ ErrCap }),
     slots |-> { NullValue },
     null_results |-> BOOLEAN,
     ptrs |-> "live"]

NextStr == NextOn(StrArgs)
SpecStr == Init /\ [][NextStr]_vars

\* the scalar values of every kind through one variable
ScalarValues ==
    { NullValue, BoolValue(TRUE), BoolValue(FALSE) }
        \cup { IntValue(i) : i \in { I64Min, -1, 0, I64Max } }
        \cup { UintValue(u) : u \in { 0, I64Max, I64Max + 1, U64Max } }
        \cup { DoubleValue(f) : f \in Finite }
        \cup { StringValue(E_ACUTE) }

NonFiniteValues == { DoubleValue(f) : f \in NonFinite }

ExecArgs ==
    [names |-> { Text_v },
     values |-> ScalarValues \cup NonFiniteValues,
     exprs |-> { Text_v, Text_w, << "v", "+" >>, << "0xFF" >> },
     validates |-> { Text_v },
     stores |-> { << "U+00E9" >> },
     errs |-> FreshErrs({ ErrCap }),
     slots |-> { NullValue },
     null_results |-> { FALSE },
     ptrs |-> "live"]

Next == NextOn(ExecArgs)
Spec == Init /\ [][Next]_vars

\* two names, and every way an add fails
CtxArgs ==
    [names |-> { Text_v, Text_w, << "0xFF" >> },
     values |-> { UintValue(0), DoubleValue("1.5"), DoubleValue("NaN"),
                  StringValue(<< "0xFF" >>), CelValue("Bytes", ZeroData) },
     exprs |-> { Text_v, Text_w },
     validates |-> { Text_v },
     stores |-> { << >> },
     errs |-> FreshErrs({ ErrCap }),
     slots |-> { NullValue },
     null_results |-> { FALSE },
     ptrs |-> "live"]

NextCtx == NextOn(CtxArgs)
SpecCtx == Init /\ [][NextCtx]_vars

\* failing calls with error buffers of several capacities: none, too small
\* for any diagnostic, an exact fit for the shortest one, and ample
FitCap == Len(MsgNoExpressionCompiled) + 1
BigCap == 80
ErrCaps == { 0, 1, ErrCap, FitCap, BigCap }

ErrorArgs ==
    [names |-> { Text_v, << "0xFF" >> },
     values |-> { UintValue(0), DoubleValue("NaN") },
     exprs |-> { Text_v, << "v", "+" >> },
     validates |-> { << "v", "+" >>, << "0xFF" >> },
     stores |-> { << >> },
     errs |-> FreshErrs(ErrCaps) \cup { NullErr(ErrCap) },
     slots |-> { NullValue },
     null_results |-> BOOLEAN,
     ptrs |-> "live"]

NextErr == NextOn(ErrorArgs)
SpecErr == Init /\ [][NextErr]_vars

\* failing calls that share one error buffer: the caller passes the buffer of
\* the call before again, with the capacity that call left in *errbuf_len
ReuseArgs ==
    [names |-> { Text_v },
     values |-> { DoubleValue("NaN") },
     exprs |-> { << "v", "+" >> },
     validates |-> { << "v", "+" >> },
     stores |-> { << >> },
     errs |-> FreshErrs({ 1, 2, ErrCap }) \cup { ReusedErr },
     slots |-> { NullValue },
     null_results |-> { FALSE },
     ptrs |-> "live"]

NextReuse == NextOn(ReuseArgs)
SpecReuse == Init /\ [][NextReuse]_vars

\* results of every kind, lists and maps included, with and without a result
\* slot
ResultArgs ==
    [names |-> { Text_v },
     values |-> { NullValue, BoolValue(TRUE), IntValue(-1), UintValue(U64Max),
                  DoubleValue("1.5"), StringValue(E_ACUTE) },
     exprs |-> { Text_v, << "[", "v", "]" >>, << "{", "}" >>, << "v", "+" >> },
     validates |-> { Text_v },
     stores |-> { << >> },
     errs |-> FreshErrs({ BigCap }),
     slots |-> { NullValue },
     null_results |-> BOOLEAN,
     ptrs |-> "live"]

NextResult == NextOn(ResultArgs)
SpecResult == Init /\ [][NextResult]_vars

\* the texts the threads store
ThreadTexts == { << "a" >>, << "U+00E9" >> }

\* the threads alone, each scheduled until it is done
NextThreads ==
    \E t \in Threads :
        \/ \E s \in ThreadTexts : thread_alloc(t, s)
        \/ thread_copy(t)
        \/ thread_scan(t)
        \/ thread_drop(t)

ThreadRuns(t) ==
    \/ \E s \in ThreadTexts : thread_alloc(t, s)
    \/ thread_copy(t)
    \/ thread_scan(t)
    \/ thread_drop(t)

SpecThreads == Init /\ [][NextThreads]_vars /\ \A t \in Threads : WF_vars(ThreadRuns(t))

\* result slots that hold a value of the caller's, and every way execute fails
SlotArgs ==
    [names |-> { Text_v },
     values |-> { IntValue(-1), StringValue(E_ACUTE) },
     exprs |-> { Text_v, << "[", "v", "]" >>, << "{", "}" >> },
     validates |-> { Text_v },
     stores |-> { << >> },
     errs |-> FreshErrs({ BigCap }),
     slots |-> { NullValue, IntValue(-1), BoolValue(TRUE) },
     null_results |-> { FALSE },
     ptrs |-> "live"]

NextSlot == NextOn(SlotArgs)
SpecSlot == Init /\ [][NextSlot]_vars

\* a value of every kind of CelValueType
KindValues ==
    { NullValue, BoolValue(TRUE), IntValue(-1), UintValue(U64Max),
      DoubleValue("1.5"), DoubleValue("NaN"),
      StringValue(E_ACUTE), StringValue(<< "0xFF" >>),
      CelValue("Bytes", ZeroData), CelValue("List", ZeroData),
      CelValue("Map", ZeroData), CelValue("Type", ZeroData) }

KindArgs ==
    [names |-> { Text_v, << "0xFF" >> },
     values |-> KindValues,
     exprs |-> { << "[", "v", "]" >> },
     validates |-> { Text_v },
     stores |-> { << >> },
     errs |-> FreshErrs({ ErrCap }),
     slots |-> { NullValue },
     null_results |-> { FALSE },
     ptrs |-> "live"]

NextKind == NextOn(KindArgs)
SpecKind == Init /\ [][NextKind]_vars

\* texts that compile, with no, one and two names, and texts that do not
ValidateTexts ==
    { Text_v, << "[", "v", ",", "w", "]" >>, << "[", "v", ",", "v", "]" >>,
      << "{", "}" >>, << "v", "+" >>, << "0xFF" >> }

ValidateArgs ==
    [names |-> { Text_v },
     values |-> { IntValue(-1) },
     exprs |-> ValidateTexts,
     validates |-> ValidateTexts,
     stores |-> { << >> },
     errs |-> FreshErrs({ ErrCap }),
     slots |-> { NullValue },
     null_results |-> { FALSE },
     ptrs |-> "live"]

NextValidate == NextOn(ValidateArgs)
SpecValidate == Init /\ [][NextValidate]_vars

\* the pieces expression texts are made of: names, a keyword, a built-in,
\* punctuation, and the calls, index and operator of the documented examples
Pieces ==
    { << "x" >>
    , << "y" >>
    , << "." >>
    , << "(" >>
    , << ")" >>
    , << " " >>
    , << "i", "n" >>
    , << "s", "i", "z", "e" >>
    , << "0" >>
    , << "\"" >>
    , << "U+00E9" >>
    , << "]" >>
    , << "f", "(", "x", ")" >>
    , << "i", "t", "e", "m", "s", "[", "0", "]" >>
    , << "p", "r", "i", "c", "e" >>
    , << "s", "i", "z", "e", "(", "a", "r", "r", ")" >>
    , << " ", "+", " " >>
    , << "l", "e", "n" >>
    , << ".", "s", "i", "z", "e" >>
    }

\* number of pieces in an expression text
MaxPieces == 3

RECURSIVE Concat(_)
Concat(ps) == IF ps = << >> THEN << >> ELSE Head(ps) \o Concat(Tail(ps))

Expressions ==
    { Concat(ps) : ps \in UNION { [1..n -> Pieces] : n \in 0..MaxPieces } }

\* extract_variables on a text, as Program::compile and program_validate call it
ExtractVariables ==
    /\ extracted = None
    /\ extracted' = Some(extract_variables(input))
    /\ cleaned' = Some(remove_strings_and_literals(input))
    /\ UNCHANGED <<pool, doubleFreed, aborted, context, program, result, errbuf,
                   errbuf_len, call, history, variables_len, threads, input>>

\* the state before extract_variables runs on one of the texts
InitOn(texts) ==
    /\ input \in texts
    /\ pool = [a \in Addrs |-> FreeBlock]
    /\ doubleFreed = { }
    /\ aborted = FALSE
    /\ context = NoContext
    /\ program = NoProgram
    /\ result = NullValue
    /\ errbuf = << >>
    /\ errbuf_len = 0
    /\ call = Call("", TRUE, << >>)
    /\ history = NoHistory
    /\ variables_len = None
    /\ threads = NoThreads
    /\ extracted = None
    /\ cleaned = None

InitExtract == InitOn(Expressions)

NextExtract == ExtractVariables
SpecExtract == InitExtract /\ [][NextExtract]_vars

\* the characters of texts with quoted literals, and the length of such texts
QuoteChars == { "x", "\"", "'", "\\", " " }
MaxLen == 5
QuotedTexts == UNION { [1..n -> QuoteChars] : n \in 0..MaxLen }

InitClean == InitOn(QuotedTexts)

NextClean == ExtractVariables
SpecClean == InitClean /\ [][NextClean]_vars

\* the characters of texts of numeric literals and operators
NumberChars == { "0", "7", ".", "+", "(", " " }
NumberTexts == UNION { [1..n -> NumberChars] : n \in 0..MaxLen }

InitNumbers == InitOn(NumberTexts)
NextNumbers == ExtractVariables
SpecNumbers == InitNumbers /\ [][NextNumbers]_vars

----------------------------------------------------------------------------
(* The claims *)

\* the steps that are a call of one function with arguments from A
Adds(A, name, value) == \E eb \in A.errs : context_add_variable(name, value, eb)
Compiles(A, expression) == \E eb \in A.errs : program_compile(expression, eb)
Executes(A) ==
    \E slot \in A.slots, null_result \in A.null_results, eb \in A.errs :
        program_execute(slot, null_result, eb)
ExecutesInto(A) == \E slot \in A.slots, eb \in A.errs : program_execute(slot, FALSE, eb)

\* the content of the buffer a String slot describes
Content(slot, pl) == SubSeq(pl[slot.data.ptr].bytes, 1, slot.data.len)

\* C1: releasing a descriptor that holds no buffer (never returned by
\* store_string_in_pool, or already released) is a safe no-op: the step frees
\* nothing, changes no buffer and does not fault.
C1_ReleaseOfUnknownIsNoOp ==
    [][\A ptr \in Addrs :
        (~pool[ptr].alloc /\ cel_string_free(ptr))
            => (pool' = pool /\ doubleFreed' = doubleFreed /\ ~aborted')]_vars

\* C2: a buffer in use stays allocated with the same content through every
\* step that is not a release of its own descriptor, and a release of its
\* descriptor frees exactly that buffer.
C2_BufferStaysUntilReleased ==
    [][\A a \in Addrs :
        pool[a].alloc =>
            IF cel_string_free(a)
            THEN pool' = [pool EXCEPT ![a] = FreeBlock]
            ELSE pool'[a] = pool[a]]_vars

\* C3: whenever the engine returns a String (the empty one and one with a zero
\* byte included), program_execute with a result slot returns true, the
\* process lives, exactly one buffer is new and holds the content, and the
\* slot is of kind String with that buffer's address and the byte length.
C3_StringResultIsStored ==
    [][\A r \in Program_execute(program, context) :
        (r.ok /\ r.v.t = "String" /\ ExecutesInto(StrArgs)) =>
            /\ ~aborted'
            /\ call'.ok
            /\ result'.value_type = "String"
            /\ result'.data.len = Len(as_bytes(r.v.s))
            /\ result'.data.ptr \in Addrs
            /\ ~pool[result'.data.ptr].alloc
            /\ pool'[result'.data.ptr].alloc
            /\ Content(result', pool') = as_bytes(r.v.s)
            /\ \A a \in Addrs \ { result'.data.ptr } : pool'[a] = pool[a]]_vars

\* a result slot holds the same kind and payload as the value x
SameValue(x, slot, pl) ==
    /\ slot.value_type = x.value_type
    /\ CASE x.value_type = "Null" -> TRUE
         [] x.value_type = "Bool" -> slot.data.bool_val = x.data.bool_val
         [] x.value_type = "Int" -> slot.data.int_val = x.data.int_val
         [] x.value_type = "Uint" -> slot.data.uint_val = x.data.uint_val
         [] x.value_type = "Double" -> slot.data.double_val = x.data.double_val
         [] x.value_type = "String" ->
                slot.data.len = x.data.len /\ Content(slot, pl) = x.data.str

\* the Context was given x under the name v last, and `v` is compiled
HoldsUnderV(x) ==
    /\ context.live /\ program.live
    /\ Text_v \in DOMAIN history.added
    /\ history.added[Text_v] = x
    /\ history.compiled.some
    /\ history.compiled.v = Text_v

\* C4: round trip: with a scalar x added under v and `v` compiled, execute
\* returns true and the slot holds the kind and payload of x.
C4_RoundTrip ==
    [][\A x \in ScalarValues :
        (HoldsUnderV(x) /\ ExecutesInto(ExecArgs)) =>
            (call'.ok /\ ~aborted' /\ SameValue(x, result', pool'))]_vars

\* the stored generic value is the value x the caller passed
Represents(json, x) ==
    CASE x.value_type = "Null" -> json.t = "Null"
      [] x.value_type = "Bool" -> json.t = "Bool" /\ json.b = x.data.bool_val
      [] x.value_type = "Int" ->
            json.t = "Number" /\ json.n.k # "Float" /\ json.n.i = x.data.int_val
      [] x.value_type = "Uint" ->
            json.t = "Number" /\ json.n.k # "Float" /\ json.n.i = x.data.uint_val
      [] x.value_type = "Double" ->
            json.t = "Number" /\ json.n.k = "Float" /\ json.n.f = x.data.double_val
      [] x.value_type = "String" -> json.t = "String" /\ as_bytes(json.s) = x.data.str
      [] OTHER -> FALSE

\* a result slot shows the value x, whatever integer kind it reports
Observes(x, slot, pl) ==
    CASE x.value_type \in { "Int", "Uint" } ->
            \/ slot.value_type = "Int" /\ slot.data.int_val = x.data.int_val + x.data.uint_val
            \/ slot.value_type = "Uint" /\ slot.data.uint_val = x.data.int_val + x.data.uint_val
      [] OTHER -> SameValue(x, slot, pl)

\* the bindings are the most recent successful adds, one per name
BindingsAreLastAdds ==
    context.live =>
        /\ DOMAIN context.variables = DOMAIN history.added
        /\ \A n \in DOMAIN context.variables :
                Represents(context.variables[n], history.added[n])

\* an execute of a reference to a bound name that returns shows the last add
ExecuteObservesLastAdd ==
    \A n \in DOMAIN history.added :
        (/\ program.live /\ program.program.some /\ program.program.v.expr = n
         /\ ExecutesInto(CtxArgs) /\ call'.ok /\ ~aborted')
            => Observes(history.added[n], result', pool')

\* C5: last write wins: the Context holds one binding per name, that of the
\* most recent successful add, and an execute of a reference observes it.
C5_LastWriteWins == []BindingsAreLastAdds /\ [][ExecuteObservesLastAdd]_vars

W5_OverwrittenThenExecuted ==
    history.overwrote /\ call.fn = "program_execute" /\ call.ok

\* C6: with no compile having returned true on the Program since it was
\* made, failed compiles or not, execute returns false with the
\* no-compiled-expression diagnostic, whatever the Context holds.
C6_ExecuteWithoutCompile ==
    [][(program.live /\ ~history.compiled.some /\ Executes(ExecArgs)) =>
            (~call'.ok /\ ~aborted' /\ call'.error = MsgNoExpressionCompiled)]_vars

W6_FailedCompileThenExecute ==
    /\ call.fn = "program_execute"
    /\ call.error = MsgNoExpressionCompiled
    /\ history.compile_failed
    /\ DOMAIN context.variables # { }

\* C7: a compile that returns false leaves the handle and the variable set
\* as they were; one that returns true sets both from the new text.
C7_CompileIsAtomic ==
    [][\A expression \in ExecArgs.exprs :
        Compiles(ExecArgs, expression) =>
            IF call'.ok
            THEN /\ program'.program.some
                 /\ program'.program.v.expr = CStr_to_str(expression).s
                 /\ program'.variables = extract_variables(CStr_to_str(expression).s)
            ELSE program' = program]_vars

W7_FailedRecompile ==
    call.fn = "program_compile" /\ ~call.ok /\ program.program.some

\* C8: an add that returns false leaves the bindings as they were.
C8_FailedAddChangesNothing ==
    [][\A name \in CtxArgs.names, value \in CtxArgs.values :
        (Adds(CtxArgs, name, value) /\ ~call'.ok) => context' = context]_vars

W8_FailedAddOnBoundContext ==
    call.fn = "context_add_variable" /\ ~call.ok /\ DOMAIN context.variables # { }

\* C9: an add of a Double that is NaN or an infinity returns false, names
\* the value in its diagnostic and stores nothing; a finite one is stored.
C9_NonFiniteRejected ==
    [][\A f \in Finite \cup NonFinite, name \in ExecArgs.names :
        Adds(ExecArgs, name, DoubleValue(f)) =>
            IF f \in NonFinite
            THEN /\ ~call'.ok
                 /\ call'.error = MsgInvalidFloatValue \o F64Display(f)
                 /\ context' = context
            ELSE /\ call'.ok
                 /\ Represents(context'.variables[CStr_to_str(name).s], DoubleValue(f))]_vars

W9_NaNRejected ==
    /\ call.fn = "context_add_variable" /\ ~call.ok
    /\ call.error = MsgInvalidFloatValue \o F64Display("NaN")
    /\ DOMAIN context.variables # { }

\* the steps that are a failing call given the error buffer eb
FailsWith(A, eb) ==
    /\ ~call'.ok /\ ~aborted'
    /\ Len(errbuf') >= Len(eb.mem)
    /\ \/ /\ call'.fn = "context_add_variable"
          /\ \E name \in A.names, value \in A.values : context_add_variable(name, value, eb)
       \/ /\ call'.fn = "program_compile"
          /\ \E expression \in A.exprs : program_compile(expression, eb)
       \/ /\ call'.fn = "program_execute"
          /\ \E slot \in A.slots, null_result \in A.null_results :
                program_execute(slot, null_result, eb)

\* C10: a failing call given a buffer of capacity c >= 1 writes the first
\* min(n, c - 1) bytes of its n-byte diagnostic, a zero byte after them, and
\* sets the capacity parameter to min(n, c - 1).
C10_DiagnosticIsTruncated ==
    [][\A eb \in ErrorArgs.errs :
        (~eb.null /\ eb.len >= 1 /\ FailsWith(ErrorArgs, eb)) =>
            LET d == as_bytes(call'.error)
                m == Min(Len(d), eb.len - 1)
            IN  /\ errbuf_len' = m
                /\ SubSeq(errbuf', 1, m) = SubSeq(d, 1, m)
                /\ errbuf'[m + 1] = NUL
                /\ Len(errbuf') = eb.len]_vars

W10_Truncated ==
    /\ ~call.ok /\ ~aborted
    /\ Len(errbuf) = ErrCap
    /\ Len(call.error) > ErrCap - 1
    /\ errbuf_len = ErrCap - 1

\* the steps that are a call given the error buffer eb which returns false
\* or does not return
FailsGiven(A, eb) ==
    /\ ~call'.ok
    /\ \/ /\ call'.fn = "context_add_variable"
          /\ \E name \in A.names, value \in A.values : context_add_variable(name, value, eb)
       \/ /\ call'.fn = "program_compile"
          /\ \E expression \in A.exprs : program_compile(expression, eb)
       \/ /\ call'.fn = "program_execute"
          /\ \E slot \in A.slots, null_result \in A.null_results :
                program_execute(slot, null_result, eb)
       \/ /\ call'.fn = "program_validate"
          /\ \E expression \in A.validates, null \in BOOLEAN :
                program_validate(expression, null, eb)

\* C11: a failing call given an error buffer, fresh or the one of the call
\* before with the capacity that call wrote back, capacity 0 included, does
\* not fault and writes no byte at an offset at or beyond that capacity.
C11_TruncatesSafely ==
    [][\A eb \in ReuseArgs.errs :
        (~Given(eb).null /\ FailsGiven(ReuseArgs, eb)) =>
            /\ ~aborted'
            /\ Len(errbuf') = Len(Given(eb).mem)
            /\ \A i \in (Given(eb).len + 1)..Len(Given(eb).mem) :
                    errbuf'[i] = Given(eb).mem[i]]_vars

\* a call returns false and leaves the handles and the buffers as they were
FailsCleanly ==
    /\ ~call'.ok /\ ~aborted'
    /\ context' = context /\ program' = program /\ pool' = pool

\* a call given the null error buffer writes nothing and leaves the capacity
Quiet == errbuf' = << >> /\ errbuf_len' = ErrCap

\* whether a call fails, from its other arguments and the handles alone
TextFails(expression) ==
    ~CStr_to_str(expression).ok \/ ~CelProgram_compile(CStr_to_str(expression).s).ok
AddFails(name, value) == ~CStr_to_str(name).ok \/ ~cel_value_to_json(value).ok
ExecuteFails(null_result) ==
    \/ null_result
    \/ \E r \in Program_execute(program, context) : ~r.ok \/ r.v.t \in { "List", "Map" }

\* a step with or without an error buffer fails when it is due to, cleanly,
\* and quietly without one
AsWithBuffer(fails, null) ==
    /\ call'.ok = ~fails
    /\ fails => FailsCleanly
    /\ (fails /\ null) => Quiet

\* C12: a failing add, compile, execute or validate given a null error
\* buffer writes nothing, leaves the capacity parameter as it was, and returns
\* and leaves the Context and the Program as the same call given a buffer does.
C12_NullBufferSuppressesDiagnostic ==
    [][\A eb \in { NullErr(ErrCap), FreshErr(ErrCap) } :
        /\ \A name \in ErrorArgs.names, value \in ErrorArgs.values :
                (call'.fn = "context_add_variable" /\ context_add_variable(name, value, eb))
                    => AsWithBuffer(AddFails(name, value), eb.null)
        /\ \A expression \in ErrorArgs.exprs :
                (call'.fn = "program_compile" /\ program_compile(expression, eb))
                    => AsWithBuffer(TextFails(expression), eb.null)
        /\ \A slot \in ErrorArgs.slots, null_result \in ErrorArgs.null_results :
                (call'.fn = "program_execute" /\ program_execute(slot, null_result, eb))
                    => AsWithBuffer(ExecuteFails(null_result), eb.null)
        /\ \A expression \in ErrorArgs.validates, null \in BOOLEAN :
                (call'.fn = "program_validate" /\ program_validate(expression, null, eb))
                    => AsWithBuffer(TextFails(expression), eb.null)]_vars

W12_FailedWithNullBuffer ==
    /\ call.fn = "program_validate" /\ ~call.ok /\ ~aborted
    /\ errbuf = << >> /\ errbuf_len = ErrCap

\* the diagnostics of the other ways an execute fails
OtherExecuteDiagnostics(e) ==
    \/ e = MsgNoExpressionCompiled
    \/ e = MsgResultPointerIsNull
    \/ SubSeq(e, 1, Len(MsgExecutionError)) = MsgExecutionError
    \/ SubSeq(e, 1, Len(MsgErrorConvertingVariable)) = MsgErrorConvertingVariable

\* the engine's result is a list or a map
CompositeResult ==
    /\ program.live /\ context.live
    /\ \E r \in Program_execute(program, context) : r.ok /\ r.v.t \in { "List", "Map" }

\* C13: an execute whose result is a list or a map, given a result slot,
\* returns false with a diagnostic of its own, unlike those of a missing
\* compile, an evaluation error and a null slot, and creates no buffer.
C13_CompositeResultUnsupported ==
    [][(CompositeResult
            /\ \E slot \in ResultArgs.slots, eb \in ResultArgs.errs :
                    program_execute(slot, FALSE, eb)) =>
        /\ ~call'.ok /\ ~aborted'
        /\ call'.error # << >>
        /\ ~OtherExecuteDiagnostics(call'.error)
        /\ errbuf_len' = Len(call'.error)
        /\ pool' = pool /\ doubleFreed' = doubleFreed
        /\ result' = NullValue]_vars

W13_MapResult ==
    /\ call.fn = "program_execute" /\ ~call.ok
    /\ program.program.some /\ IsEmptyMap(program.program.v.expr)
    /\ call.error = MsgMapNotSupported

\* C14: an execute given a null result slot returns false with a
\* diagnostic, that of the null slot whenever the evaluation has a result of
\* whatever kind, writes no result and creates no buffer.
C14_NullSlotIsAnError ==
    [][(program.live /\ context.live
            /\ \E slot \in ResultArgs.slots, eb \in ResultArgs.errs :
                    program_execute(slot, TRUE, eb)) =>
        /\ ~call'.ok /\ ~aborted'
        /\ call'.error # << >>
        /\ errbuf_len' = Len(call'.error)
        /\ \A r \in Program_execute(program, context) :
                r.ok => call'.error = MsgResultPointerIsNull
        /\ result' = NullValue
        /\ pool' = pool /\ doubleFreed' = doubleFreed]_vars

W14_StringResultNullSlot ==
    /\ call.fn = "program_execute" /\ call.error = MsgResultPointerIsNull
    /\ program.program.some /\ program.program.v.expr = Text_v
    /\ Text_v \in DOMAIN context.variables
    /\ context.variables[Text_v].t = "String"

\* the threads that hold a block
Holding == { t \in Threads : threads[t].pc \in { "allocated", "stored", "scanned" } }

\* no thread holds, sees or frees the block of another
ThreadsApart ==
    /\ ~aborted /\ doubleFreed = { }
    /\ \A t \in Holding : pool[threads[t].ptr].alloc
    /\ \A t, u \in Holding : t # u => threads[t].ptr # threads[u].ptr
    /\ \A t \in Threads :
        /\ threads[t].pc = "stored" =>
                pool[threads[t].ptr].bytes = as_bytes(threads[t].s) \o << NUL >>
        /\ threads[t].pc \in { "scanned", "done" } =>
                threads[t].seen = as_bytes(threads[t].s)
    /\ \A a \in Addrs : pool[a].alloc => \E t \in Holding : threads[t].ptr = a

\* a thread's release frees its own block, which was in use, and nothing else
FreesOwnOnce ==
    \A t \in Threads :
        thread_drop(t) =>
            /\ pool[threads[t].ptr].alloc
            /\ pool' = [pool EXCEPT ![threads[t].ptr] = FreeBlock]

AllDone == \A t \in Threads : threads[t].pc = "done"

\* C15: under every interleaving of threads that each store a string and
\* release their own descriptor, no thread sees or frees another's buffer,
\* each buffer is freed once, and every thread completes.
C15_ThreadsDoNotInterfere == []ThreadsApart /\ [][FreesOwnOnce]_vars /\ <>[]AllDone

W15_AllHoldBuffers == \A t \in Threads : threads[t].pc = "stored"

\* C16: every store of the same text that returns takes a block of its own,
\* one that was not in use, and leaves every buffer in use as it was; so k
\* stores without a release give k distinct descriptors, and the release of
\* one of them changes no other block.
C16_NoDeduplication ==
    [][/\ \A s \in PoolArgs.stores :
            (Store(s) /\ ~aborted') =>
                \E ptr \in Addrs :
                    /\ ~pool[ptr].alloc
                    /\ pool' = [pool EXCEPT ![ptr] = Block(as_bytes(s) \o << NUL >>)]
       /\ \A ptr \in Addrs :
            (pool[ptr].alloc /\ cel_string_free(ptr)) =>
                \A a \in Addrs \ { ptr } : pool'[a] = pool[a]]_vars

\* a character of an identifier
IdentChar(ch) == is_alphanumeric(ch) \/ ch = "_"
IdentStart(ch) == is_alphabetic(ch) \/ ch = "_"

Reserved == Keywords \cup BuiltinFunctions

\* the text e has no quoted literal
QuoteFree(e) == ~Contains(e, "\"") /\ ~Contains(e, "'")

\* the word w stands in e from index i on, ends where the identifier
\* characters end, and has only digits between it and the start of its run
OccursAt(e, w, i) ==
    /\ w # << >> /\ i >= 1 /\ i + Len(w) - 1 <= Len(e)
    /\ SubSeq(e, i, i + Len(w) - 1) = w
    /\ i + Len(w) <= Len(e) => ~IdentChar(e[i + Len(w)])
    /\ \A k \in 1..(i - 1) :
            (\A m \in k..(i - 1) : IdentChar(e[m])) => is_numeric(e[k])

\* an identifier stands in e from i to j and is a run of its own
IdentifierAt(e, i, j) ==
    /\ 1 <= i /\ i <= j /\ j <= Len(e)
    /\ IdentStart(e[i])
    /\ \A m \in i..j : IdentChar(e[m])
    /\ i > 1 => ~IdentChar(e[i - 1])
    /\ j < Len(e) => ~IdentChar(e[j + 1])

\* the next character of e after index j that is not whitespace is "("
CalledAt(e, j) ==
    \E k \in (j + 1)..Len(e) :
        /\ e[k] = "("
        /\ \A m \in (j + 1)..(k - 1) : is_whitespace(e[m])

C18_CallsAreNotVariables ==
    extracted # None =>
        /\ \A w \in extracted.v :
                \E i \in 1..Len(input) :
                    OccursAt(input, w, i) /\ ~CalledAt(input, i + Len(w) - 1)
        /\ QuoteFree(input) =>
                \A i \in 1..Len(input) : \A j \in i..Len(input) :
                    ( /\ IdentifierAt(input, i, j)
                      /\ SubSeq(input, i, j) \notin Reserved
                      /\ ~CalledAt(input, j)
                      /\ i > 1 => input[i - 1] # "." )
                        => SubSeq(input, i, j) \in extracted.v

W18_CallWithArgument ==
    /\ input = << "f", "(", "x", ")", " ", "+", " ", "l", "e", "n" >>
    /\ extracted = Some({ << "x" >>, << "l", "e", "n" >> })

\* the index of the last character of the run of identifier characters
\* that starts at i
RECURSIVE IdentEnd(_, _)
IdentEnd(e, i) ==
    IF i + 1 <= Len(e) /\ IdentChar(e[i + 1]) THEN IdentEnd(e, i + 1) ELSE i

\* the index after the segments .f1 ... .fn that start at k, every fi an
\* identifier
RECURSIVE SegmentsEnd(_, _)
SegmentsEnd(e, k) ==
    IF k + 1 <= Len(e) /\ e[k] = "." /\ IdentStart(e[k + 1])
    THEN SegmentsEnd(e, IdentEnd(e, k + 1) + 1)
    ELSE k

\* an identifier that is no segment starts at index i of e
RootAt(e, i) ==
    /\ IdentStart(e[i])
    /\ i > 1 => (~IdentChar(e[i - 1]) /\ e[i - 1] # ".")

\* C19: where a dotted chain root.f1...fn stands in a text (after a part
\* without quoted literals, and with no dot behind fn), extract_variables
\* returns what it returns for the part before the chain, the root unless it
\* is reserved, and what it returns for the part after the last segment; no
\* fi comes from the chain.
C19_ChainRecordsRootOnly ==
    extracted # None =>
        \A i \in 1..Len(input) :
            RootAt(input, i) =>
                LET j == IdentEnd(input, i)
                    k == SegmentsEnd(input, j + 1)
                    root == SubSeq(input, i, j)
                IN  ( /\ k > j + 1
                      /\ k <= Len(input) => input[k] # "."
                      /\ QuoteFree(SubSeq(input, 1, i - 1)) )
                        => extracted.v =
                            extract_variables(SubSeq(input, 1, i - 1))
                            \cup (IF root \in Reserved THEN { } ELSE { root })
                            \cup extract_variables(SubSeq(input, k, Len(input)))

W19_ChainOfBuiltins ==
    /\ input = << "x", ".", "s", "i", "z", "e", ".", "s", "i", "z", "e" >>
    /\ extracted = Some({ << "x" >> })

\* C20: whatever the text, a name is returned only if it stands somewhere
\* in it not directly behind a ".": an identifier directly behind a dot is
\* never recorded, whatever precedes the dot.
C20_NoSegmentIsRecorded ==
    extracted # None =>
        \A w \in extracted.v :
            \E i \in 1..Len(input) :
                OccursAt(input, w, i) /\ (i > 1 => input[i - 1] # ".")

\* the characters of [A-Za-z0-9_]
AsciiIdentChars == AsciiLetters \cup AsciiDigits \cup { "_" }

\* C21: whatever the text, every name extract_variables returns is made of
\* ASCII letters, ASCII digits and "_" only and does not start with a digit:
\* a character outside that set neither starts nor extends a candidate.
C21_NamesAreAsciiIdentifiers ==
    extracted # None =>
        \A w \in extracted.v :
            /\ \A i \in 1..Len(w) : w[i] \in AsciiIdentChars
            /\ w[1] \notin AsciiDigits

\* the text e from index i on with every quoted literal blanked; mode is
\* "out" outside a literal and the opening quote inside one
RECURSIVE Blanked(_, _, _)
Blanked(e, i, mode) ==
    IF i > Len(e) THEN << >>
    ELSE IF mode = "out"
    THEN IF e[i] \in { "\"", "'" }
         THEN << " " >> \o Blanked(e, i + 1, e[i])
         ELSE << e[i] >> \o Blanked(e, i + 1, "out")
    ELSE IF e[i] = mode THEN Blanked(e, i + 1, "out")
    ELSE IF e[i] = "\\" THEN Blanked(e, i + 2, mode)
    ELSE Blanked(e, i + 1, mode)

NumericChars == AsciiDigits \cup { ".", "+", "-", "*", "/", "(", ")", " " }

\* C23: for a text made only of numeric literals [0-9][0-9.]*, operators,
\* parentheses and whitespace, extract_variables returns the empty set.
C23_NumbersYieldNoNames ==
    (extracted # None /\ \A i \in 1..Len(input) : input[i] \in NumericChars) =>
        extracted.v = { }

W23_SumOfNumbers ==
    /\ input = << "7", ".", "0", "+", "7" >>
    /\ extracted = Some({ })

\* the steps that are a call of program_validate with arguments from A
Validates(A, expression, null) == \E eb \in A.errs : program_validate(expression, null, eb)

\* C24: program_validate(e) returns true exactly when program_compile of e on
\* a fresh Program returns true; then the count output, if there is one, holds
\* the number of names that Program records; when it returns false the count
\* output is not written; and no Program or Context changes.
C24_ValidateIsCompileOnFresh ==
    [][\A expression \in ValidateArgs.validates, null \in BOOLEAN :
        Validates(ValidateArgs, expression, null) =>
            LET text == CStr_to_str(expression)
                fresh == Program_compile(Program_new, text.s)
            IN  /\ ~aborted'
                /\ call'.ok = (text.ok /\ fresh.ok)
                /\ variables_len' =
                        IF call'.ok /\ ~null
                        THEN Some(Cardinality(fresh.prog.variables))
                        ELSE None
                /\ program' = program
                /\ context' = context]_vars

W24_TwoNamesCounted ==
    /\ call.fn = "program_validate" /\ call.ok
    /\ variables_len = Some(2)
    /\ program.live /\ context.live

\* an execute of a reference to a name whose binding a reset dropped, and
\* that was not added since, fails with the engine's evaluation error
ExecuteMissesDropped ==
    \A n \in history.dropped :
        (/\ program.live /\ program.program.some /\ program.program.v.expr = n
         /\ Executes(CtxArgs))
            => /\ ~call'.ok /\ ~aborted'
               /\ call'.error = MsgExecutionError \o MsgUndeclaredReference \o n \o << "'" >>

\* C25: context_reset leaves the Context live and without bindings, whatever
\* it held; afterwards a binding dropped by the reset is not there unless it
\* is added again, an execute of a reference to it fails with an evaluation
\* error, and an add after the reset binds as on a new Context.
C25_ResetDropsEveryBinding ==
    /\ [][context_reset => (context'.live /\ context'.variables = EmptyMap)]_vars
    /\ [](context.live => DOMAIN context.variables \cap history.dropped = { })
    /\ [][ExecuteMissesDropped]_vars
    /\ [][\A name \in CtxArgs.names, value \in CtxArgs.values :
            (history.dropped # { } /\ Adds(CtxArgs, name, value) /\ call'.ok) =>
                /\ DOMAIN context'.variables = DOMAIN context.variables \cup { CStr_to_str(name).s }
                /\ \A n \in DOMAIN context.variables \ { CStr_to_str(name).s } :
                        context'.variables[n] = context.variables[n]]_vars

W25_ExecuteAfterResetAndAdd ==
    /\ call.fn = "program_execute" /\ ~call.ok
    /\ program.program.some /\ program.program.v.expr \in history.dropped
    /\ DOMAIN context.variables # { }

\* C26: context_free, program_free and cel_string_free on a null handle free
\* nothing: in every state the Context, the Program, every string buffer and
\* the allocator are afterwards as before, and the process lives.
C26_NullFreesAreNoOps ==
    [][(context_free(TRUE) \/ program_free(TRUE) \/ cel_string_free(0)) =>
            /\ context' = context
            /\ program' = program
            /\ pool' = pool
            /\ doubleFreed' = doubleFreed
            /\ ~aborted']_vars

W26_NullFreeWithLiveHandles ==
    /\ call.fn = "context_free"
    /\ context.live /\ DOMAIN context.variables # { }
    /\ program.live /\ program.program.some
    /\ \E a \in Addrs : pool[a].alloc

\* the handle and the variable set of a live Program describe the text of
\* the most recent compile that returned true, or nothing if there is none
DescribesLastCompiled ==
    program.live =>
        IF history.compiled.some
        THEN /\ program.program = Some(CelProgram_compile(history.compiled.v).v)
             /\ program.variables = extract_variables(history.compiled.v)
        ELSE /\ ~program.program.some
             /\ program.variables = { }

\* C27: a Program has no compiled handle and no variables exactly when no
\* compile returned true since it was made; otherwise both are those of the
\* text of the most recent compile that returned true; and no call on the
\* Program clears a handle once set.
C27_HandleAndVariablesAgree ==
    /\ []DescribesLastCompiled
    /\ [][(program.live /\ program'.live /\ program.program.some)
            => program'.program.some]_vars

W27_FailedRecompileKeepsBoth ==
    /\ call.fn = "program_compile" /\ ~call.ok
    /\ history.compiled = Some(<< "[", "v", ",", "w", "]" >>)
    /\ program.variables = { << "v" >>, << "w" >> }

\* a result slot shows the stored generic value json, an integer as
\* whichever integer kind
Shows(json, slot, pl) ==
    CASE json.t = "Null" -> slot.value_type = "Null"
      [] json.t = "Bool" -> slot.value_type = "Bool" /\ slot.data.bool_val = json.b
      [] json.t = "Number" ->
            IF json.n.k = "Float"
            THEN slot.value_type = "Double" /\ slot.data.double_val = json.n.f
            ELSE \/ slot.value_type = "Int" /\ slot.data.int_val = json.n.i
                 \/ slot.value_type = "Uint" /\ slot.data.uint_val = json.n.i
      [] json.t = "String" ->
            slot.value_type = "String" /\ Content(slot, pl) = as_bytes(json.s)

\* an execute of a compiled reference shows the binding the Context holds
\* for the name when the call is made, and fails if it holds none
ExecuteReadsCurrentBindings ==
    \A n \in ExecArgs.exprs :
        (/\ program.live /\ program.program.some /\ program.program.v.expr = n
         /\ ExecutesInto(ExecArgs))
            => /\ ~aborted'
               /\ IF n \in DOMAIN context.variables
                  THEN call'.ok /\ Shows(context.variables[n], result', pool')
                  ELSE /\ ~call'.ok
                       /\ call'.error = MsgExecutionError \o MsgUndeclaredReference
                                            \o n \o << "'" >>

\* C28: program_execute, returning true or false, leaves the Program and the
\* Context as they were, and what it returns is decided by the bindings the
\* Context holds when it is called, whatever was added, overwritten, reset
\* or made anew since the compile.
C28_ExecuteReadsAndKeeps ==
    /\ [][Executes(ExecArgs) => (program' = program /\ context' = context)]_vars
    /\ [][ExecuteReadsCurrentBindings]_vars

W28_OverwrittenBindingRead ==
    /\ call.fn = "program_execute" /\ call.ok
    /\ history.overwrote /\ history.compiled.some
    /\ result.value_type = "Double"

\* C29: a program_execute that returns false, for whichever reason, leaves
\* a non-null result slot with the kind and payload the caller supplied, and
\* creates no string buffer.
C29_FailedExecuteKeepsSlot ==
    [][\A slot \in SlotArgs.slots, eb \in SlotArgs.errs :
        (program_execute(slot, FALSE, eb) /\ ~call'.ok /\ ~aborted') =>
            /\ result' = slot
            /\ pool' = pool
            /\ doubleFreed' = doubleFreed]_vars

W29_ListResultKeepsSlot ==
    /\ call.fn = "program_execute" /\ ~call.ok
    /\ call.error = MsgListNotSupported
    /\ result = IntValue(-1)

\* the kinds a Context takes, and the values of those kinds it takes
ScalarKinds == { "Null", "Bool", "Int", "Uint", "Double", "String" }
Acceptable(value) ==
    /\ value.value_type \in ScalarKinds
    /\ value.value_type = "Double" => value.data.double_val \in Finite
    /\ value.value_type = "String" => from_utf8(value.data.str).ok

\* every binding is a scalar that json_to_cel_value converts
BindingsConvert ==
    context.live =>
        \A n \in DOMAIN context.variables :
            /\ context.variables[n].t \in { "Null", "Bool", "Number", "String" }
            /\ json_to_cel_value(context.variables[n]).ok

\* C30: under a valid name, context_add_variable returns true exactly for a
\* value of kind Null, Bool, Int, Uint, finite Double or String of valid
\* UTF-8; for kind Bytes, List, Map or Type it returns false with the
\* unsupported-value-type diagnostic and binds nothing; so every binding of
\* a Context is a scalar that the conversion in execute takes.
C30_OnlyScalarsAreBound ==
    /\ [][\A name \in KindArgs.names, value \in KindArgs.values :
            (Adds(KindArgs, name, value) /\ CStr_to_str(name).ok) =>
                /\ ~aborted'
                /\ call'.ok = Acceptable(value)
                /\ value.value_type \notin ScalarKinds =>
                        (call'.error = MsgUnsupportedValueType /\ context' = context)]_vars
    /\ []BindingsConvert

W30_BytesRejected ==
    /\ call.fn = "context_add_variable" /\ ~call.ok
    /\ call.error = MsgUnsupportedValueType
    /\ DOMAIN context.variables # { }

====
